---------------------------- MODULE Spec2Model ----------------------------
(***************************************************************************)
(* busybot: the kCTF proof of work over a Mersenne-prime modulus.          *)
(*                                                                         *)
(* The module models src/index.mjs: the modular arithmetic returned by     *)
(* initMathsFunctions (barrettMul, barrettFastSquare, fastModPow,          *)
(* fastFixedExpPow) and the protocol built on it (generate, solve,         *)
(* verify).  JavaScript BigInt values are arbitrary-precision here too:    *)
(* a sign and a little-endian sequence of limbs, so that the exponents     *)
(* generate accepts (61 and above) are computed with their real width.     *)
(* The loops of the source (the squaring ladder, the binary method, the    *)
(* iterations of solve and verify) run one iteration per step.             *)
(***************************************************************************)
EXTENDS Integers, Sequences, FiniteSets, TLC

VARIABLES
    randomBytesP,   \* the module-level handle to the random-byte source
    gen,            \* the activation of generate
    sol,            \* the activation of solve
    ver,            \* the activation of verify
    mth,            \* the activation of a maths function called directly
    gens            \* the activations of generate that are in flight together

vars == <<randomBytesP, gen, sol, ver, mth, gens>>

Max(x, y) == IF x > y THEN x ELSE y
Min(x, y) == IF x < y THEN x ELSE y

(***************************************************************************)
(* BigInt.  A value is [neg, mag]: mag is the magnitude in limbs of        *)
(* LimbBits bits, least significant first, without leading zero limbs;     *)
(* zero is the empty sequence and is never negative.                       *)
(***************************************************************************)
\* three hexadecimal digits to a limb
LimbBits == 3 * 4
Radix == 2 ^ LimbBits

Limb(s, i) == IF i >= 1 /\ i <= Len(s) THEN s[i] ELSE 0

RECURSIVE MNorm(_)
MNorm(s) == IF Len(s) = 0 THEN <<>>
            ELSE IF s[Len(s)] = 0 THEN MNorm(SubSeq(s, 1, Len(s) - 1))
            ELSE s

\* the limbs lo..hi of a against those of b, the most significant first;
\* the range is halved at each level to keep the evaluation shallow
RECURSIVE MCmpFrom(_, _, _, _)
MCmpFrom(a, b, lo, hi) ==
    IF lo = hi
    THEN (IF a[lo] > b[lo] THEN 1 ELSE IF a[lo] < b[lo] THEN -1 ELSE 0)
    ELSE LET mid == (lo + hi + 1) \div 2
             top == MCmpFrom(a, b, mid, hi)
         IN  IF top # 0 THEN top ELSE MCmpFrom(a, b, lo, mid - 1)

\* -1, 0 or 1 as magnitude a is below, equal to or above magnitude b
MCmp(a, b) == IF Len(a) > Len(b) THEN 1
              ELSE IF Len(a) < Len(b) THEN -1
              ELSE IF Len(a) = 0 THEN 0
              ELSE MCmpFrom(a, b, 1, Len(a))

\* limbs lo..hi of a + b with carry c in: the limbs and the carry out
RECURSIVE MAddFrom(_, _, _, _, _)
MAddFrom(a, b, lo, hi, c) ==
    IF lo = hi
    THEN LET t == Limb(a, lo) + Limb(b, lo) + c
         IN  [s |-> <<t % Radix>>, c |-> t \div Radix]
    ELSE LET mid == (lo + hi) \div 2
             low == MAddFrom(a, b, lo, mid, c)
             high == MAddFrom(a, b, mid + 1, hi, low.c)
         IN  [s |-> low.s \o high.s, c |-> high.c]

MAdd(a, b) ==
    IF Len(a) = 0 THEN b
    ELSE IF Len(b) = 0 THEN a
    ELSE LET r == MAddFrom(a, b, 1, Max(Len(a), Len(b)), 0)
         IN  IF r.c = 0 THEN r.s ELSE Append(r.s, r.c)

\* limbs lo..hi of a - b with borrow c in: the limbs and the borrow out
RECURSIVE MSubFrom(_, _, _, _, _)
MSubFrom(a, b, lo, hi, c) ==
    IF lo = hi
    THEN LET t == a[lo] - Limb(b, lo) - c
         IN  [s |-> <<t % Radix>>, c |-> IF t < 0 THEN 1 ELSE 0]
    ELSE LET mid == (lo + hi) \div 2
             low == MSubFrom(a, b, lo, mid, c)
             high == MSubFrom(a, b, mid + 1, hi, low.c)
         IN  [s |-> low.s \o high.s, c |-> high.c]

\* magnitude a minus magnitude b, for a >= b
MSub(a, b) == IF Len(b) = 0 THEN a
              ELSE MNorm(MSubFrom(a, b, 1, Len(a), 0).s)

\* column k of the product: the sum of a[i] * b[k + 1 - i] for i in lo..hi
RECURSIVE MCol(_, _, _, _, _)
MCol(a, b, k, lo, hi) ==
    IF lo > hi THEN 0
    ELSE IF lo = hi THEN a[lo] * b[k + 1 - lo]
    ELSE LET mid == (lo + hi) \div 2
         IN  MCol(a, b, k, lo, mid) + MCol(a, b, k, mid + 1, hi)

\* the columns lo..hi reduced to limbs, with carry c in: limbs and carry out
RECURSIVE MMulFrom(_, _, _, _)
MMulFrom(cols, lo, hi, c) ==
    IF lo = hi
    THEN LET t == cols[lo] + c
         IN  [s |-> <<t % Radix>>, c |-> t \div Radix]
    ELSE LET mid == (lo + hi) \div 2
             low == MMulFrom(cols, lo, mid, c)
             high == MMulFrom(cols, mid + 1, hi, low.c)
         IN  [s |-> low.s \o high.s, c |-> high.c]

MMul(a, b) ==
    IF Len(a) = 0 \/ Len(b) = 0 THEN <<>>
    ELSE LET cols == [k \in 1..(Len(a) + Len(b)) |->
                         MCol(a, b, k, Max(1, k + 1 - Len(b)), Min(Len(a), k))]
         IN  MNorm(MMulFrom(cols, 1, Len(a) + Len(b), 0).s)

MShl(a, s) ==
    LET q == s \div LimbBits
        p == 2 ^ (s % LimbBits)
    IN  MNorm([i \in 1..(Len(a) + q + 1) |->
                  IF i <= q THEN 0
                  ELSE ((Limb(a, i - q) * p) % Radix)
                       + ((Limb(a, i - q - 1) * p) \div Radix)])

MShr(a, s) ==
    LET q == s \div LimbBits
        r == s % LimbBits
        p == 2 ^ r
        h == 2 ^ (LimbBits - r)
    IN  IF q >= Len(a) THEN <<>>
        ELSE MNorm([i \in 1..(Len(a) - q) |->
                      (a[i + q] \div p) + ((Limb(a, i + q + 1) % p) * h)])

\* the bits of magnitude a below bit s
MLow(a, s) ==
    LET q == s \div LimbBits
        p == 2 ^ (s % LimbBits)
    IN  MNorm([i \in 1..Min(Len(a), q + 1) |->
                  IF i <= q THEN a[i] ELSE a[i] % p])

RECURSIVE XorBits(_, _, _)
XorBits(x, y, k) ==
    IF k = 0 THEN 0
    ELSE ((x + y) % 2) + 2 * XorBits(x \div 2, y \div 2, k - 1)

RECURSIVE AndBits(_, _, _)
AndBits(x, y, k) ==
    IF k = 0 THEN 0
    ELSE ((x % 2) * (y % 2)) + 2 * AndBits(x \div 2, y \div 2, k - 1)

MXor(a, b) == MNorm([i \in 1..Max(Len(a), Len(b)) |->
                        XorBits(Limb(a, i), Limb(b, i), LimbBits)])

MAnd(a, b) == MNorm([i \in 1..Min(Len(a), Len(b)) |->
                        AndBits(a[i], b[i], LimbBits)])

\* twice the magnitude r, plus the bit
MDouble(r, bit) ==
    MNorm([i \in 1..(Len(r) + 1) |->
              ((Limb(r, i) * 2) % Radix)
              + (IF i = 1 THEN bit ELSE r[i - 1] \div (Radix \div 2))])

\* one step of binary long division: bring down bit t of limb d
RECURSIVE MDivBits(_, _, _, _)
MDivBits(qr, d, b, t) ==
    IF t < 0 THEN qr
    ELSE LET r2 == MDouble(qr.r, (d \div (2 ^ t)) % 2)
         IN  IF MCmp(r2, b) >= 0
             THEN MDivBits([q |-> qr.q * 2 + 1, r |-> MSub(r2, b)], d, b, t - 1)
             ELSE MDivBits([q |-> qr.q * 2, r |-> r2], d, b, t - 1)

\* limbs hi down to lo of a divided by b, r the remainder so far: the
\* quotient limbs, the most significant first, and the remainder
RECURSIVE MDivFrom(_, _, _, _, _)
MDivFrom(a, b, lo, hi, r) ==
    IF lo = hi
    THEN LET s == MDivBits([q |-> 0, r |-> r], a[lo], b, LimbBits - 1)
         IN  [q |-> <<s.q>>, r |-> s.r]
    ELSE LET mid == (lo + hi) \div 2
             high == MDivFrom(a, b, mid + 1, hi, r)
             low == MDivFrom(a, b, lo, mid, high.r)
         IN  [q |-> high.q \o low.q, r |-> low.r]

MDivMod(a, b) ==
    IF Len(a) = 0 THEN [q |-> <<>>, r |-> <<>>]
    ELSE LET x == MDivFrom(a, b, 1, Len(a), <<>>)
         IN  [q |-> MNorm([i \in 1..Len(a) |-> x.q[Len(a) + 1 - i]]), r |-> x.r]

Big(neg, mag) == [neg |-> neg /\ Len(mag) > 0, mag |-> mag]

RECURSIVE MFromNat(_)
MFromNat(n) == IF n = 0 THEN <<>> ELSE <<n % Radix>> \o MFromNat(n \div Radix)

\* the BigInt literal i n, and BigInt(i) of an integral number
BigInt(i) == IF i < 0 THEN Big(TRUE, MFromNat(-i)) ELSE Big(FALSE, MFromNat(i))

BigNeg(a) == Big(~a.neg, a.mag)

BigAdd(a, b) ==
    IF a.neg = b.neg THEN Big(a.neg, MAdd(a.mag, b.mag))
    ELSE IF MCmp(a.mag, b.mag) >= 0 THEN Big(a.neg, MSub(a.mag, b.mag))
    ELSE Big(b.neg, MSub(b.mag, a.mag))

BigSub(a, b) == BigAdd(a, BigNeg(b))

BigMul(a, b) == Big(a.neg # b.neg, MMul(a.mag, b.mag))

\* a / b, truncated towards zero
BigDiv(a, b) == Big(a.neg # b.neg, MDivMod(a.mag, b.mag).q)

\* a % b, with the sign of a
BigRem(a, b) == Big(a.neg, MDivMod(a.mag, b.mag).r)

BigShl(a, s) == Big(a.neg, MShl(a.mag, s))

\* a >> s rounds towards minus infinity
BigShr(a, s) ==
    IF a.neg /\ Len(MLow(a.mag, s)) > 0
    THEN Big(TRUE, MAdd(MShr(a.mag, s), <<1>>))
    ELSE Big(a.neg, MShr(a.mag, s))

\* two's complement: ~x = -x - 1, and ~x ^ b = ~(x ^ b) for b >= 0
BigNot(a) == BigSub(BigNeg(a), BigInt(1))

BigXor(a, b) ==
    IF ~a.neg /\ ~b.neg THEN Big(FALSE, MXor(a.mag, b.mag))
    ELSE IF a.neg /\ ~b.neg THEN BigNot(Big(FALSE, MXor(BigNot(a).mag, b.mag)))
    ELSE IF ~a.neg /\ b.neg THEN BigNot(Big(FALSE, MXor(a.mag, BigNot(b).mag)))
    ELSE Big(FALSE, MXor(BigNot(a).mag, BigNot(b).mag))

\* a & b for b >= 0 (the code masks with 1n only)
BigAnd(a, b) ==
    IF ~a.neg THEN Big(FALSE, MAnd(a.mag, b.mag))
    ELSE Big(FALSE, MSub(b.mag, MAnd(BigNot(a).mag, b.mag)))

BigCmp(a, b) ==
    IF a.neg # b.neg THEN (IF a.neg THEN -1 ELSE 1)
    ELSE IF a.neg THEN MCmp(b.mag, a.mag)
    ELSE MCmp(a.mag, b.mag)

BigLt(a, b) == BigCmp(a, b) < 0
BigGt(a, b) == BigCmp(a, b) > 0
BigGe(a, b) == BigCmp(a, b) >= 0


(***************************************************************************)
(* JavaScript values.  A number is m * 2^e (a double), NaN or an infinity; *)
(* a string is a sequence of one-character strings.                        *)
(***************************************************************************)
Undefined == [t |-> "undefined"]
Null == [t |-> "null"]
Fin(m, e) == [t |-> "number", k |-> "fin", m |-> m, e |-> e]
Num(i) == Fin(i, 0)
NaN == [t |-> "number", k |-> "nan", m |-> 0, e |-> 0]
Infinity == [t |-> "number", k |-> "inf", m |-> 0, e |-> 0]
BigIntValue(i) == [t |-> "bigint", b |-> BigInt(i)]
String(s) == [t |-> "string", s |-> s]
Function == [t |-> "function"]
Object(fields) == [t |-> "object", f |-> fields]

\* typeof v
typeof(v) == IF v.t = "null" THEN "object" ELSE v.t

\* !v is false for these
Truthy(v) ==
    CASE v.t = "undefined" -> FALSE
      [] v.t = "null" -> FALSE
      [] v.t = "number" -> v.k # "nan" /\ ~(v.k = "fin" /\ v.m = 0)
      [] v.t = "bigint" -> Len(v.b.mag) > 0
      [] v.t = "string" -> Len(v.s) > 0
      [] OTHER -> TRUE

\* v.name: a property of an object, undefined when it has none
Get(v, name) ==
    IF v.t = "object" /\ name \in DOMAIN v.f THEN v.f[name] ELSE Undefined

Digits == <<"0", "1", "2", "3", "4", "5", "6", "7", "8", "9",
            "a", "b", "c", "d", "e", "f">>
UpperDigits == <<"0", "1", "2", "3", "4", "5", "6", "7", "8", "9",
                 "A", "B", "C", "D", "E", "F">>

IsHexDigit(ch) == \E i \in 1..16 : Digits[i] = ch \/ UpperDigits[i] = ch
IsDecDigit(ch) == \E i \in 1..10 : Digits[i] = ch
DigitVal(ch) == (CHOOSE i \in 1..16 : Digits[i] = ch \/ UpperDigits[i] = ch) - 1

\* the integer a finite number is, when it is one that fits
IsInteger(v) == v.t = "number" /\ v.k = "fin" /\ (v.e >= 0 \/ v.m = 0)
IntOf(v) == v.m * (2 ^ v.e)

RECURSIVE BitLen(_)
BitLen(n) == IF n = 0 THEN 0 ELSE 1 + BitLen(n \div 2)
Abs(i) == IF i < 0 THEN -i ELSE i

\* Number.isSafeInteger(v): an integral number of magnitude at most 2^53 - 1
isSafeInteger(v) == IsInteger(v) /\ BitLen(Abs(v.m)) + v.e <= 53

\* v < i for a number v and an integer i
NumLtInt(v, i) ==
    CASE v.k = "nan" -> FALSE
      [] v.k = "inf" -> FALSE
      [] v.k = "ninf" -> TRUE
      [] OTHER -> IF v.e <= 0 THEN v.m < i * (2 ^ (-v.e))
                  ELSE IF v.m <= 0 THEN (v.m < 0 /\ i >= 0) \/ IntOf(v) < i
                  ELSE BitLen(v.m) + v.e <= 31 /\ IntOf(v) < i

\* i < v for an integer i >= 0 and a number v
IntLtNum(i, v) ==
    CASE v.k = "nan" -> FALSE
      [] v.k = "inf" -> TRUE
      [] v.k = "ninf" -> FALSE
      [] OTHER -> IF v.e <= 0 THEN i * (2 ^ (-v.e)) < v.m
                  ELSE v.m > 0 /\ (BitLen(v.m) + v.e > 31 \/ i < IntOf(v))

RECURSIVE ParseDecimal(_, _)
ParseDecimal(s, i) ==
    IF i = 0 THEN 0 ELSE DigitVal(s[i]) + 10 * ParseDecimal(s, i - 1)

\* Number(v) for the values the callers pass: a number is itself, a string of
\* decimal digits is its value, any other string is NaN
Number(v) ==
    CASE v.t = "number" -> v
      [] v.t = "null" -> Num(0)
      [] v.t = "string" -> IF Len(v.s) = 0 THEN Num(0)
                           ELSE IF Len(v.s) <= 8 /\ \A i \in 1..Len(v.s) : IsDecDigit(v.s[i])
                           THEN Num(ParseDecimal(v.s, Len(v.s)))
                           ELSE NaN
      [] OTHER -> NaN

\* BigInt(str): 0x and hexadecimal digits, or an optionally signed decimal
\* numeral, or the empty string; anything else is a SyntaxError
HexLimbs(h) ==
    [j \in 1..((Len(h) + 2) \div 3) |->
        LET at(t) == IF Len(h) - (3 * (j - 1) + t) >= 1
                     THEN DigitVal(h[Len(h) - (3 * (j - 1) + t)]) ELSE 0
        IN  at(0) + 16 * at(1) + 256 * at(2)]

RECURSIVE DecLimbs(_, _)
DecLimbs(s, i) ==
    IF i = 0 THEN <<>>
    ELSE MAdd(MMul(DecLimbs(s, i - 1), <<10>>), MFromNat(DigitVal(s[i])))

IsHexNumeral(s) ==
    /\ Len(s) >= 3
    /\ s[1] = "0"
    /\ s[2] \in {"x", "X"}
    /\ \A i \in 3..Len(s) : IsHexDigit(s[i])

IsDecNumeral(s) == Len(s) >= 1 /\ \A i \in 1..Len(s) : IsDecDigit(s[i])

StringToBigInt(s) ==
    IF Len(s) = 0 THEN [ok |-> TRUE, v |-> BigInt(0)]
    ELSE IF IsHexNumeral(s)
    THEN [ok |-> TRUE, v |-> Big(FALSE, MNorm(HexLimbs(SubSeq(s, 3, Len(s)))))]
    ELSE IF IsDecNumeral(s)
    THEN [ok |-> TRUE, v |-> Big(FALSE, MNorm(DecLimbs(s, Len(s))))]
    ELSE IF s[1] \in {"-", "+"} /\ IsDecNumeral(Tail(s))
    THEN [ok |-> TRUE, v |-> Big(s[1] = "-", MNorm(DecLimbs(Tail(s), Len(s) - 1)))]
    ELSE [ok |-> FALSE, v |-> BigInt(0)]

\* a.toString(16): lower-case digits, no leading zeros, "-" before a negative
HexLen(mag) ==
    IF Len(mag) = 0 THEN 1
    ELSE 3 * (Len(mag) - 1)
         + (IF mag[Len(mag)] >= 256 THEN 3 ELSE IF mag[Len(mag)] >= 16 THEN 2 ELSE 1)

toString16(a) ==
    LET n == HexLen(a.mag)
        hex == [i \in 1..n |->
                   LET k == n - i
                   IN  Digits[((Limb(a.mag, (k \div 3) + 1) \div (16 ^ (k % 3))) % 16) + 1]]
    IN  IF a.neg THEN <<"-">> \o hex ELSE hex

\* the bytes in hexadecimal with the last byte first
bytesToHexReversed(bytes) ==
    [i \in 1..(2 * Len(bytes)) |->
        IF i % 2 = 1 THEN Digits[(bytes[Len(bytes) + 1 - ((i + 1) \div 2)] \div 16) + 1]
        ELSE Digits[(bytes[Len(bytes) + 1 - (i \div 2)] % 16) + 1]]

\* buffer.toString('hex'): two lower-case digits for each byte
bytesToHex(bytes) ==
    [i \in 1..(2 * Len(bytes)) |->
        IF i % 2 = 1 THEN Digits[(bytes[(i + 1) \div 2] \div 16) + 1]
        ELSE Digits[(bytes[i \div 2] % 16) + 1]]

(***************************************************************************)
(* The maths functions of initMathsFunctions, for the exponent n.          *)
(***************************************************************************)
Known_Mersenne_Exponents ==
    <<2, 3, 5, 7, 13, 17, 19, 31, 61, 89, 107, 127,
      521, 607, 1279, 2203, 2281, 3217, 4253, 4423, 9689, 9941, 11213, 19937,
      21701, 23209, 44497, 86243, 110503, 132049, 216091, 756839, 859433,
      1257787, 1398269, 2976221, 3021377, 6972593, 13466917, 20996011, 24036583,
      25964951, 30402457, 32582657, 37156667, 42643801, 43112609, 57885161,
      74207281>>

isMersenneExponent(n) ==
    LET v == Number(n)
    IN  /\ IsInteger(v)
        /\ BitLen(Abs(v.m)) + v.e <= 31
        /\ \E i \in 1..Len(Known_Mersenne_Exponents) :
               Known_Mersenne_Exponents[i] = IntOf(v)

Flip_Bits == BigInt(1)

\* initMathsFunctions throws for these
initMathsFunctionsThrows(forMersenneExponent) ==
    ~isMersenneExponent(Number(forMersenneExponent))

\* initMathsFunctions with the exponent taken from the modulus, not modulus + 1
initMathsFunctionsFloorExponent(forMersenneExponent) ==
    LET modulusLog2 == IntOf(Number(forMersenneExponent))
        modulus == BigSub(BigShl(BigInt(1), modulusLog2), BigInt(1))
        barrett_n == modulusLog2
    IN  [modulusLog2 |-> modulusLog2,
         modulus |-> modulus,
         exponent |-> BigDiv(modulus, BigInt(4)),
         exponentLog2 |-> modulusLog2 - 2,
         barrett_n |-> barrett_n,
         barrett_R |-> BigDiv(BigShl(BigInt(1), 2 * barrett_n), modulus)]

\* the constants initMathsFunctions computes once; the functions it returns
\* close over them, so each function below takes them as k
initMathsFunctions(forMersenneExponent) ==
    LET modulusLog2 == IntOf(Number(forMersenneExponent))
        modulus == BigSub(BigShl(BigInt(1), modulusLog2), BigInt(1))
        barrett_n == modulusLog2
    IN  [modulusLog2 |-> modulusLog2,
         modulus |-> modulus,
         exponent |-> BigDiv(BigAdd(modulus, BigInt(1)), BigInt(4)),
         exponentLog2 |-> modulusLog2 - 2,
         barrett_n |-> barrett_n,
         barrett_R |-> BigDiv(BigShl(BigInt(1), 2 * barrett_n), modulus)]

\* barrettMul's x with the quotient estimated from one bit less of w
barrettMulCandidateShift(k, a, b) ==
    LET w == BigMul(a, b)
        x2 == BigMul(BigShr(w, k.barrett_n), k.barrett_R)
        x3 == BigShr(x2, k.barrett_n + 1)
    IN  BigSub(w, BigMul(x3, k.modulus))

\* barrettMul's x before the conditional subtraction: w - x3 * modulus
barrettMulCandidate(k, a, b) ==
    LET w == BigMul(a, b)
        x2 == BigMul(BigShr(w, k.barrett_n - 1), k.barrett_R)
        x3 == BigShr(x2, k.barrett_n + 1)
    IN  BigSub(w, BigMul(x3, k.modulus))

\* barrettMul with the first shift one bit short of barrett_n - 1
barrettMulShift(k, a, b) ==
    LET w == BigMul(a, b)
        x2 == BigMul(BigShr(w, k.barrett_n), k.barrett_R)
        x3 == BigShr(x2, k.barrett_n + 1)
        x == BigSub(w, BigMul(x3, k.modulus))
    IN  IF BigGe(x, k.modulus) THEN BigSub(x, k.modulus) ELSE x

barrettMul(k, a, b) ==
    LET x == barrettMulCandidate(k, a, b)
    IN  IF BigGe(x, k.modulus) THEN BigSub(x, k.modulus) ELSE x

\* barrettFastSquare's x before the conditional subtraction
barrettFastSquareCandidate(k, a) ==
    LET w == BigMul(a, a)
        x2 == BigShr(w, k.barrett_n - 1)
        x2m == BigAdd(BigShl(x2, k.barrett_n), x2)
        x3 == BigShr(x2m, k.barrett_n + 1)
    IN  BigSub(w, BigSub(BigShl(x3, k.modulusLog2), x3))

\* barrettFastSquare without the final conditional subtraction
barrettFastSquareNoReduce(k, a) ==
    LET w == BigMul(a, a)
        x2 == BigShr(w, k.barrett_n - 1)
        x2m == BigAdd(BigShl(x2, k.barrett_n), x2)
        x3 == BigShr(x2m, k.barrett_n + 1)
    IN  BigSub(w, BigSub(BigShl(x3, k.modulusLog2), x3))

\* barrettFastSquare subtracting the modulus only from an x above it
barrettFastSquareStrict(k, a) ==
    LET x == barrettFastSquareCandidate(k, a)
    IN  IF BigGt(x, k.modulus) THEN BigSub(x, k.modulus) ELSE x

barrettFastSquare(k, a) ==
    LET x == barrettFastSquareCandidate(k, a)
    IN  IF BigGe(x, k.modulus) THEN BigSub(x, k.modulus) ELSE x

\* fastModPow: the range check, the locals before the loop, one iteration
fastModPowThrows(k, base) == BigGe(base, k.modulus) \/ BigLt(base, BigInt(0))

fastModPowEnter(k, base) ==
    [result |-> BigInt(1), e |-> k.exponent, base |-> base]

\* fastModPow's iteration testing the exponent's bit after the shift
fastModPowLoopLate(k, f) ==
    [result |-> IF Truthy([t |-> "bigint", b |-> BigAnd(BigShr(f.e, 1), BigInt(1))])
                THEN barrettMul(k, f.result, f.base) ELSE f.result,
     e |-> BigShr(f.e, 1),
     base |-> barrettFastSquare(k, f.base)]

fastModPowLoop(k, f) ==
    [result |-> IF Truthy([t |-> "bigint", b |-> BigAnd(f.e, BigInt(1))])
                THEN barrettMul(k, f.result, f.base) ELSE f.result,
     e |-> BigShr(f.e, 1),
     base |-> barrettFastSquare(k, f.base)]

\* fastFixedExpPow starting one squaring too far
fastFixedExpPowEnterLong(k, base) == [base |-> base, n |-> k.exponentLog2 + 1]

\* fastFixedExpPow starting one squaring short
fastFixedExpPowEnterShort(k, base) == [base |-> base, n |-> k.exponentLog2 - 1]

\* fastFixedExpPow: the locals before the loop, one iteration
fastFixedExpPowEnter(k, base) == [base |-> base, n |-> k.exponentLog2]

fastFixedExpPowLoop(k, f) ==
    [base |-> barrettFastSquare(k, f.base), n |-> f.n - 1]

(***************************************************************************)
(* Bounds of the model.                                                    *)
(***************************************************************************)
\* the maths functions are called with the first exponents of the whitelist
MaxMathsExponentIndex == 5
\* barrettFastSquare takes every operand within this distance of 0 or of M - 1
SquareWindow == 4095
\* barrettMul, fastModPow and fastFixedExpPow take the operands within this one
OperandWindow == 31
\* the difficulties 0..MaxDifficulty are asked of generate, solve and verify
MaxDifficulty == 2
\* generate is asked for the first exponents of the whitelist
MaxGenerateExponentIndex == 16
\* solve is called on a generated challenge of m bits and difficulty d
\* when m * (d + 1) is at most this
MaxSolveWork == 254
\* solve and verify are called directly with the first exponents of the whitelist
MaxCallExponentIndex == 4
\* and with the values of c and s within this distance of 0 or of M - 1
CallWindow == 5

\* initMathsFunctions is called alone with the first exponents of the whitelist
MaxInitExponentIndex == 13

\* this many calls of generate are in flight together
MaxInFlight == 2

Idle == [pc |-> "idle"]

MathsExponents ==
    {Known_Mersenne_Exponents[i] :
        i \in 1..Min(MaxMathsExponentIndex, Len(Known_Mersenne_Exponents))}

\* what initMathsFunctions is called with: whitelisted exponents as numbers
\* and as strings, and numbers, strings and other values that are none
InitExponentInputs ==
    {Num(Known_Mersenne_Exponents[i]) :
        i \in 1..Min(MaxInitExponentIndex, Len(Known_Mersenne_Exponents))}
    \cup {String(<<"7">>), String(<<"1", "3">>), String(<<"1", "2", "7">>),
          String(<<"f", "o", "o">>), String(<<"6", "7">>), String(<<>>),
          Num(67), Num(257), Num(0), Num(1), Num(4), Num(-7), Fin(15, -1),
          NaN, Infinity, Undefined, Null}

\* the operands in [0, M) within w of either end of the range
Operands(k, w) ==
    {x \in {BigInt(i) : i \in 0..w}
           \cup {BigSub(k.modulus, BigInt(i + 1)) : i \in 0..w} :
        ~x.neg /\ BigLt(x, k.modulus)}

(***************************************************************************)
(* The maths functions called directly, as the tests call them.  An        *)
(* activation keeps the constants k of its initMathsFunctions call.        *)
(***************************************************************************)
CallBarrettMul ==
    /\ mth.pc = "idle"
    /\ \E n \in MathsExponents :
          \E k \in {initMathsFunctions(Num(n))} :
              \E a \in Operands(k, OperandWindow), b \in Operands(k, OperandWindow) :
                  mth' = [pc |-> "returned", fn |-> "barrettMul", k |-> k, a |-> a,
                          b |-> b, x |-> barrettMulCandidate(k, a, b),
                          result |-> barrettMul(k, a, b)]
    /\ UNCHANGED <<randomBytesP, gen, sol, ver, gens>>

CallBarrettFastSquare ==
    /\ mth.pc = "idle"
    /\ \E n \in MathsExponents :
          \E k \in {initMathsFunctions(Num(n))} :
              \E a \in Operands(k, SquareWindow) :
                  mth' = [pc |-> "returned", fn |-> "barrettFastSquare", k |-> k,
                          a |-> a, x |-> barrettFastSquareCandidate(k, a),
                          result |-> barrettFastSquare(k, a)]
    /\ UNCHANGED <<randomBytesP, gen, sol, ver, gens>>

\* fastModPow is also called with the two operands next to its range
CallFastModPow ==
    /\ mth.pc = "idle"
    /\ \E n \in MathsExponents :
          \E k \in {initMathsFunctions(Num(n))} :
              \E base \in Operands(k, OperandWindow) \cup {k.modulus, BigInt(-1)} :
                  mth' = IF fastModPowThrows(k, base)
                         THEN [pc |-> "thrown", fn |-> "fastModPow", k |-> k,
                               a |-> base]
                         ELSE [pc |-> "loop", fn |-> "fastModPow", k |-> k,
                               a |-> base, f |-> fastModPowEnter(k, base)]
    /\ UNCHANGED <<randomBytesP, gen, sol, ver, gens>>

FastModPowLoop ==
    /\ mth.pc = "loop"
    /\ mth.fn = "fastModPow"
    /\ BigGt(mth.f.e, BigInt(0))
    /\ mth' = [mth EXCEPT !.f = fastModPowLoop(mth.k, mth.f)]
    /\ UNCHANGED <<randomBytesP, gen, sol, ver, gens>>

FastModPowReturn ==
    /\ mth.pc = "loop"
    /\ mth.fn = "fastModPow"
    /\ ~BigGt(mth.f.e, BigInt(0))
    /\ mth' = [pc |-> "returned", fn |-> "fastModPow", k |-> mth.k, a |-> mth.a,
               result |-> mth.f.result]
    /\ UNCHANGED <<randomBytesP, gen, sol, ver, gens>>

CallFastFixedExpPow ==
    /\ mth.pc = "idle"
    /\ \E n \in MathsExponents :
          \E k \in {initMathsFunctions(Num(n))} :
              \E base \in Operands(k, OperandWindow) :
                  mth' = [pc |-> "loop", fn |-> "fastFixedExpPow", k |-> k,
                          a |-> base, f |-> fastFixedExpPowEnter(k, base)]
    /\ UNCHANGED <<randomBytesP, gen, sol, ver, gens>>

FastFixedExpPowLoop ==
    /\ mth.pc = "loop"
    /\ mth.fn = "fastFixedExpPow"
    /\ mth.f.n > 0
    /\ mth' = [mth EXCEPT !.f = fastFixedExpPowLoop(mth.k, mth.f)]
    /\ UNCHANGED <<randomBytesP, gen, sol, ver, gens>>

FastFixedExpPowReturn ==
    /\ mth.pc = "loop"
    /\ mth.fn = "fastFixedExpPow"
    /\ ~(mth.f.n > 0)
    /\ mth' = [pc |-> "returned", fn |-> "fastFixedExpPow", k |-> mth.k, a |-> mth.a,
               result |-> mth.f.base]
    /\ UNCHANGED <<randomBytesP, gen, sol, ver, gens>>

\* initMathsFunctions itself, with the arguments of the tests and of the callers
CallInitMathsFunctions ==
    /\ mth.pc = "idle"
    /\ \E forMersenneExponent \in InitExponentInputs :
          mth' = IF initMathsFunctionsThrows(forMersenneExponent)
                 THEN [pc |-> "thrown", fn |-> "initMathsFunctions",
                       a |-> forMersenneExponent, error |-> "UnknownExponent"]
                 ELSE [pc |-> "returned", fn |-> "initMathsFunctions",
                       a |-> forMersenneExponent,
                       k |-> initMathsFunctions(forMersenneExponent)]
    /\ UNCHANGED <<randomBytesP, gen, sol, ver, gens>>

(***************************************************************************)
(* generate.  An async function: it runs to its first await, and resumes   *)
(* when the awaited import or byte request settles.                        *)
(***************************************************************************)
\* generate checking the difficulty before the exponent
generateRejectsDifficultyFirst(forMersenneExponent, withDifficulty) ==
    IF (~isSafeInteger(withDifficulty)) \/ NumLtInt(withDifficulty, 0)
    THEN "InvalidDifficulty"
    ELSE IF ~isMersenneExponent(forMersenneExponent) THEN "UnknownExponent"
    ELSE IF NumLtInt(Number(forMersenneExponent), 61) THEN "ExponentTooSmall"
    ELSE "none"

\* the checks of generate in their order: the error thrown, or "none"
generateRejects(forMersenneExponent, withDifficulty) ==
    IF ~isMersenneExponent(forMersenneExponent) THEN "UnknownExponent"
    ELSE IF NumLtInt(Number(forMersenneExponent), 61) THEN "ExponentTooSmall"
    ELSE IF (~isSafeInteger(withDifficulty)) \/ NumLtInt(withDifficulty, 0)
    THEN "InvalidDifficulty"
    ELSE "none"

\* the byte length rounded up to cover all the bits of the exponent
challengeByteLengthCeil(forMersenneExponent) ==
    IF NumLtInt(Number(forMersenneExponent), 128)
    THEN (IntOf(Number(forMersenneExponent)) + 7) \div 8
    ELSE 16

challengeByteLength(forMersenneExponent) ==
    IF NumLtInt(Number(forMersenneExponent), 128)
    THEN IntOf(Number(forMersenneExponent)) \div 8
    ELSE 16

\* from the checks to the request for random bytes
generateValidate(forMersenneExponent, withDifficulty) ==
    IF generateRejects(forMersenneExponent, withDifficulty) # "none"
    THEN [pc |-> "thrown", forMersenneExponent |-> forMersenneExponent,
          withDifficulty |-> withDifficulty,
          error |-> generateRejects(forMersenneExponent, withDifficulty)]
    ELSE [pc |-> "randomBytes", forMersenneExponent |-> forMersenneExponent,
          withDifficulty |-> withDifficulty,
          challengeByteLength |-> challengeByteLength(forMersenneExponent)]

\* the call, with the default of the parameter; the first call awaits the imports
GenerateCall(forMersenneExponent, withDifficulty) ==
    /\ gen.pc \in {"idle", "thrown"}
    /\ LET e == IF forMersenneExponent = Undefined THEN Num(1279)
                ELSE forMersenneExponent
       IN  gen' = IF ~randomBytesP
                  THEN [pc |-> "import util", forMersenneExponent |-> e,
                        withDifficulty |-> withDifficulty]
                  ELSE generateValidate(e, withDifficulty)
    /\ UNCHANGED <<randomBytesP, sol, ver, mth, gens>>

GenerateImportUtil ==
    /\ gen.pc = "import util"
    /\ gen' = [gen EXCEPT !.pc = "import crypto"]
    /\ UNCHANGED <<randomBytesP, sol, ver, mth, gens>>

\* the imports settled, the handle kept only by a call that passes the checks
GenerateImportCryptoChecked ==
    /\ gen.pc = "import crypto"
    /\ randomBytesP' = (generateRejects(gen.forMersenneExponent, gen.withDifficulty) = "none")
    /\ gen' = generateValidate(gen.forMersenneExponent, gen.withDifficulty)
    /\ UNCHANGED <<sol, ver, mth, gens>>

GenerateImportCrypto ==
    /\ gen.pc = "import crypto"
    /\ randomBytesP' = TRUE
    /\ gen' = generateValidate(gen.forMersenneExponent, gen.withDifficulty)
    /\ UNCHANGED <<sol, ver, mth, gens>>

\* the random-byte source delivers bytes; generate returns the challenge
GenerateReturn(bytes) ==
    /\ gen.pc = "randomBytes"
    /\ Len(bytes) = gen.challengeByteLength
    /\ gen' = [pc |-> "returned", forMersenneExponent |-> gen.forMersenneExponent,
               withDifficulty |-> gen.withDifficulty, bytes |-> bytes,
               result |-> Object([c |-> String(<<"0", "x">> \o bytesToHex(bytes)),
                                  d |-> gen.withDifficulty,
                                  m |-> gen.forMersenneExponent])]
    /\ UNCHANGED <<randomBytesP, sol, ver, mth, gens>>

(***************************************************************************)
(* Several calls of generate in flight: each has its own activation, and   *)
(* a step of one may come between any two steps of another, since each     *)
(* await yields to the other calls.  They share randomBytesP.              *)
(***************************************************************************)
GenerateCallAt(j, forMersenneExponent, withDifficulty) ==
    /\ gens[j].pc \in {"idle", "thrown"}
    /\ LET e == IF forMersenneExponent = Undefined THEN Num(1279)
                ELSE forMersenneExponent
       IN  gens' = [gens EXCEPT ![j] =
                       IF ~randomBytesP
                       THEN [pc |-> "import util", forMersenneExponent |-> e,
                             withDifficulty |-> withDifficulty]
                       ELSE generateValidate(e, withDifficulty)]
    /\ UNCHANGED <<randomBytesP, gen, sol, ver, mth>>

GenerateImportUtilAt(j) ==
    /\ gens[j].pc = "import util"
    /\ gens' = [gens EXCEPT ![j].pc = "import crypto"]
    /\ UNCHANGED <<randomBytesP, gen, sol, ver, mth>>

\* the imports settled, the assignment made only to a handle still unset,
\* and taken back by the call that finds it set
GenerateImportCryptoAtToggle(j) ==
    /\ gens[j].pc = "import crypto"
    /\ randomBytesP' = ~randomBytesP
    /\ gens' = [gens EXCEPT ![j] = generateValidate(gens[j].forMersenneExponent,
                                                    gens[j].withDifficulty)]
    /\ UNCHANGED <<gen, sol, ver, mth>>

\* the imports settled: the handle is assigned, whether or not another call
\* has assigned it meanwhile
GenerateImportCryptoAt(j) ==
    /\ gens[j].pc = "import crypto"
    /\ randomBytesP' = TRUE
    /\ gens' = [gens EXCEPT ![j] = generateValidate(gens[j].forMersenneExponent,
                                                    gens[j].withDifficulty)]
    /\ UNCHANGED <<gen, sol, ver, mth>>

\* the random-byte source settles the request of call j with bytes
GenerateReturnAt(j, bytes) ==
    /\ gens[j].pc = "randomBytes"
    /\ Len(bytes) = gens[j].challengeByteLength
    /\ gens' = [gens EXCEPT ![j] =
                   [pc |-> "returned",
                    forMersenneExponent |-> gens[j].forMersenneExponent,
                    withDifficulty |-> gens[j].withDifficulty, bytes |-> bytes,
                    result |-> Object([c |-> String(<<"0", "x">> \o bytesToHex(bytes)),
                                       d |-> gens[j].withDifficulty,
                                       m |-> gens[j].forMersenneExponent])]]
    /\ UNCHANGED <<randomBytesP, gen, sol, ver, mth>>

(***************************************************************************)
(* solve.  An activation counts the calls it has made of the two Barrett   *)
(* functions, and keeps the values its progress callback was given, each   *)
(* the quotient of num by den.                                             *)
(***************************************************************************)
NoCalls == [barrettFastSquare |-> 0, barrettMul |-> 0]

Called(calls, fn) == [calls EXCEPT ![fn] = @ + 1]

\* the progress callback given i / difficulty
solveProgressFromZero(progressCallback, progress, i, difficulty) ==
    IF Truthy(progressCallback)
    THEN Append(progress, [num |-> i, den |-> difficulty])
    ELSE progress

\* if (progressCallback) progressCallback((i+1) / difficulty)
solveProgress(progressCallback, progress, i, difficulty) ==
    IF Truthy(progressCallback)
    THEN Append(progress, [num |-> i + 1, den |-> difficulty])
    ELSE progress

solveMalformed(challenge) ==
    \/ ~Truthy(challenge)
    \/ typeof(challenge) # "object"
    \/ typeof(Get(challenge, "c")) # "string"
    \/ typeof(Get(challenge, "d")) # "number"
    \/ typeof(Get(challenge, "m")) # "number"

solveThrown(challenge, progressCallback, error) ==
    [pc |-> "thrown", challenge |-> challenge, progressCallback |-> progressCallback,
     error |-> error, calls |-> NoCalls]

\* from the call to the head of the loop
solveEnter(challenge, progressCallback) ==
    IF solveMalformed(challenge)
    THEN solveThrown(challenge, progressCallback, "MalformedChallenge")
    ELSE IF Truthy(progressCallback) /\ typeof(progressCallback) # "function"
    THEN solveThrown(challenge, progressCallback, "CallbackNotFunction")
    ELSE IF ~StringToBigInt(Get(challenge, "c").s).ok
    THEN solveThrown(challenge, progressCallback, "SyntaxError")
    ELSE IF initMathsFunctionsThrows(Get(challenge, "m"))
    THEN solveThrown(challenge, progressCallback, "UnknownExponent")
    ELSE LET solution == StringToBigInt(Get(challenge, "c").s).v
             k == initMathsFunctions(Get(challenge, "m"))
         IN  IF BigGt(solution, k.modulus) \/ BigLt(solution, BigInt(0))
             THEN solveThrown(challenge, progressCallback, "OutOfRange")
             ELSE [pc |-> "loop", challenge |-> challenge,
                   progressCallback |-> progressCallback,
                   solution |-> solution, difficulty |-> Get(challenge, "d"),
                   k |-> k, i |-> 0, progress |-> <<>>, calls |-> NoCalls]

SolveCall(challenge, progressCallback) ==
    /\ sol.pc = "idle"
    /\ \E f \in {solveEnter(challenge, progressCallback)} : sol' = f
    /\ UNCHANGED <<randomBytesP, gen, ver, mth, gens>>

\* i < difficulty: the iteration calls fastFixedExpPow(solution)
SolveLoop ==
    /\ sol.pc = "loop"
    /\ IntLtNum(sol.i, sol.difficulty)
    /\ sol' = [pc |-> "fastFixedExpPow", challenge |-> sol.challenge,
               progressCallback |-> sol.progressCallback, solution |-> sol.solution,
               difficulty |-> sol.difficulty, k |-> sol.k, i |-> sol.i,
               progress |-> sol.progress, calls |-> sol.calls,
               f |-> fastFixedExpPowEnter(sol.k, sol.solution)]
    /\ UNCHANGED <<randomBytesP, gen, ver, mth, gens>>

SolvePowLoop ==
    /\ sol.pc = "fastFixedExpPow"
    /\ sol.f.n > 0
    /\ sol' = [sol EXCEPT !.f = fastFixedExpPowLoop(sol.k, sol.f),
                          !.calls = Called(@, "barrettFastSquare")]
    /\ UNCHANGED <<randomBytesP, gen, ver, mth, gens>>

\* fastFixedExpPow returns; the bit flip, the progress callback and i++
SolvePowReturn ==
    /\ sol.pc = "fastFixedExpPow"
    /\ ~(sol.f.n > 0)
    /\ sol' = [pc |-> "loop", challenge |-> sol.challenge,
               progressCallback |-> sol.progressCallback,
               solution |-> BigXor(sol.f.base, Flip_Bits),
               difficulty |-> sol.difficulty, k |-> sol.k, i |-> sol.i + 1,
               progress |-> solveProgress(sol.progressCallback, sol.progress,
                                          sol.i, sol.difficulty),
               calls |-> sol.calls]
    /\ UNCHANGED <<randomBytesP, gen, ver, mth, gens>>

SolveReturn ==
    /\ sol.pc = "loop"
    /\ ~IntLtNum(sol.i, sol.difficulty)
    /\ sol' = [pc |-> "returned", challenge |-> sol.challenge,
               progressCallback |-> sol.progressCallback, k |-> sol.k, i |-> sol.i,
               progress |-> sol.progress, calls |-> sol.calls,
               result |-> Object([s |-> String(<<"0", "x">>
                                                \o toString16(sol.solution))])]
    /\ UNCHANGED <<randomBytesP, gen, ver, mth, gens>>

(***************************************************************************)
(* verify.                                                                 *)
(***************************************************************************)
\* verify's check of the challenge without the test of m
verifyMalformedChallengeNoM(challenge) ==
    \/ ~Truthy(challenge)
    \/ typeof(challenge) # "object"
    \/ typeof(Get(challenge, "c")) # "string"
    \/ typeof(Get(challenge, "d")) # "number"

verifyMalformedChallenge(challenge) ==
    \/ ~Truthy(challenge)
    \/ typeof(challenge) # "object"
    \/ typeof(Get(challenge, "c")) # "string"
    \/ typeof(Get(challenge, "d")) # "number"
    \/ typeof(Get(challenge, "m")) # "number"

\* /^0x[0-9a-fA-F]+$/
matchesHex(s) ==
    /\ Len(s) >= 3
    /\ s[1] = "0"
    /\ s[2] = "x"
    /\ \A i \in 3..Len(s) : IsHexDigit(s[i])

verifyMalformedSolution(solution) ==
    \/ ~Truthy(solution)
    \/ typeof(solution) # "object"
    \/ typeof(Get(solution, "s")) # "string"
    \/ ~matchesHex(Get(solution, "s").s)

verifyThrown(challenge, solution, error) ==
    [pc |-> "thrown", challenge |-> challenge, solution |-> solution,
     error |-> error, i |-> 0, calls |-> NoCalls]

\* verify taking check = modulus for a value in range
verifyEnterAcceptsModulus(challenge, solution) ==
    IF verifyMalformedChallenge(challenge)
    THEN verifyThrown(challenge, solution, "MalformedChallenge")
    ELSE IF verifyMalformedSolution(solution)
    THEN verifyThrown(challenge, solution, "MalformedSolution")
    ELSE IF initMathsFunctionsThrows(Get(challenge, "m"))
    THEN verifyThrown(challenge, solution, "UnknownExponent")
    ELSE LET check == StringToBigInt(Get(solution, "s").s).v
             k == initMathsFunctions(Get(challenge, "m"))
         IN  IF BigGt(check, k.modulus) \/ BigLt(check, BigInt(0))
             THEN [pc |-> "returned", challenge |-> challenge,
                   solution |-> solution, k |-> k, i |-> 0, calls |-> NoCalls,
                   result |-> FALSE]
             ELSE [pc |-> "loop", challenge |-> challenge, solution |-> solution,
                   check |-> check, difficulty |-> Get(challenge, "d"),
                   k |-> k, i |-> 0, calls |-> NoCalls]

\* from the call to the head of the loop, or to the early return of false
verifyEnter(challenge, solution) ==
    IF verifyMalformedChallenge(challenge)
    THEN verifyThrown(challenge, solution, "MalformedChallenge")
    ELSE IF verifyMalformedSolution(solution)
    THEN verifyThrown(challenge, solution, "MalformedSolution")
    ELSE IF initMathsFunctionsThrows(Get(challenge, "m"))
    THEN verifyThrown(challenge, solution, "UnknownExponent")
    ELSE LET check == StringToBigInt(Get(solution, "s").s).v
             k == initMathsFunctions(Get(challenge, "m"))
         IN  IF BigGe(check, k.modulus) \/ BigLt(check, BigInt(0))
             THEN [pc |-> "returned", challenge |-> challenge,
                   solution |-> solution, k |-> k, i |-> 0, calls |-> NoCalls,
                   result |-> FALSE]
             ELSE [pc |-> "loop", challenge |-> challenge, solution |-> solution,
                   check |-> check, difficulty |-> Get(challenge, "d"),
                   k |-> k, i |-> 0, calls |-> NoCalls]

VerifyCall(challenge, solution) ==
    /\ ver.pc = "idle"
    /\ \E f \in {verifyEnter(challenge, solution)} : ver' = f
    /\ UNCHANGED <<randomBytesP, gen, sol, mth, gens>>

\* the iteration of verify adding the flip bit in place of the XOR
verifyLoopIncrement(f) ==
    [f EXCEPT !.check = barrettFastSquare(f.k, BigAdd(f.check, Flip_Bits)),
              !.i = f.i + 1,
              !.calls = Called(@, "barrettFastSquare")]

\* one iteration: check = barrettFastSquare(check ^ Flip_Bits), and i++
verifyLoop(f) ==
    [f EXCEPT !.check = barrettFastSquare(f.k, BigXor(f.check, Flip_Bits)),
              !.i = f.i + 1,
              !.calls = Called(@, "barrettFastSquare")]

\* after the loop: decode challenge.c and compare
verifyReturn(f) ==
    IF ~StringToBigInt(Get(f.challenge, "c").s).ok
    THEN [pc |-> "thrown", challenge |-> f.challenge,
          solution |-> f.solution, error |-> "SyntaxError", i |-> f.i,
          calls |-> f.calls]
    ELSE [pc |-> "returned", challenge |-> f.challenge,
          solution |-> f.solution, k |-> f.k, i |-> f.i,
          calls |-> f.calls,
          result |->
              \/ f.check = StringToBigInt(Get(f.challenge, "c").s).v
              \/ f.check = BigSub(f.k.modulus,
                      StringToBigInt(Get(f.challenge, "c").s).v)]

VerifyLoop ==
    /\ ver.pc = "loop"
    /\ IntLtNum(ver.i, ver.difficulty)
    /\ ver' = verifyLoop(ver)
    /\ UNCHANGED <<randomBytesP, gen, sol, mth, gens>>

VerifyReturn ==
    /\ ver.pc = "loop"
    /\ ~IntLtNum(ver.i, ver.difficulty)
    /\ ver' = verifyReturn(ver)
    /\ UNCHANGED <<randomBytesP, gen, sol, mth, gens>>

InitIdle ==
    /\ randomBytesP = FALSE
    /\ gen = Idle
    /\ sol = Idle
    /\ ver = Idle
    /\ mth = Idle
    /\ gens = [j \in 1..MaxInFlight |-> Idle]

(***************************************************************************)
(* The arguments the operations are called with.                           *)
(***************************************************************************)
GenerateExponentInputs ==
    {Num(Known_Mersenne_Exponents[i]) :
        i \in 1..Min(MaxGenerateExponentIndex, Len(Known_Mersenne_Exponents))}
    \cup {Undefined, Num(0), Num(4), Num(67), Num(257), Num(1234), Num(-61),
          Fin(123, -1), NaN}

\* numbers: -1 .. MaxDifficulty, 1.5, NaN, Infinity, 2^52, 2^53; and no numbers
GenerateDifficultyInputs ==
    {Num(i) : i \in -1..MaxDifficulty}
    \cup {Fin(3, -1), NaN, Infinity, Fin(1, 52), Fin(1, 53),
          Null, Undefined, BigIntValue(1), String(<<"1">>)}

\* what the random-byte source returns for a request of len bytes: a first
\* byte and a byte that fills the rest
ByteSamples == {0, 78, 255}
randomBytesOutputs(len) ==
    {[i \in 1..len |-> IF i = 1 THEN h ELSE f] : h \in ByteSamples, f \in ByteSamples}

ProgressCallbackInputs == {Undefined, Function}

\* the cost of solving a challenge generate returned
SolveWork(challenge) ==
    IF NumLtInt(Get(challenge, "d"), MaxDifficulty + 1)
    THEN IntOf(Get(challenge, "m")) * (IntOf(Get(challenge, "d")) + 1)
    ELSE MaxSolveWork + 1

Hex(v) == String(<<"0", "x">> \o toString16(v))

CallExponents ==
    {Known_Mersenne_Exponents[i] :
        i \in 1..Min(MaxCallExponentIndex, Len(Known_Mersenne_Exponents))}

\* the integers from -1 to M + 1 within CallWindow of either end of [0, M)
CallValues(k) ==
    {BigInt(i) : i \in -1..CallWindow}
    \cup {BigSub(k.modulus, BigInt(i)) : i \in -1..(CallWindow + 1)}

\* numbers for d: -1 .. MaxDifficulty, 1.5 and NaN
CallDifficultyInputs == {Num(i) : i \in -1..MaxDifficulty} \cup {Fin(3, -1), NaN}

\* strings for c that are no 0x numeral: decimal, signed, empty, upper case,
\* with leading zeros, and not a numeral at all
OtherStrings ==
    {String(<<"1", "2">>), String(<<"-", "1">>), String(<<>>),
     String(<<"0", "X", "1", "F">>), String(<<"0", "x", "0", "0", "5">>),
     String(<<"0", "x">>), String(<<"0", "x", "g">>), String(<<"f", "o", "o">>)}

\* challenges of the right shape, for whitelisted exponents and for 4 and 7.5
ShapedChallenges ==
    UNION {{Object([c |-> c, d |-> d, m |-> Num(n)]) :
               c \in {Hex(v) : v \in {x \in CallValues(initMathsFunctions(Num(n))) : ~x.neg}}
                     \cup OtherStrings,
               d \in CallDifficultyInputs} : n \in CallExponents}
    \cup {Object([c |-> Hex(BigInt(1)), d |-> Num(1), m |-> m]) :
             m \in {Num(4), Fin(15, -1), NaN}}

\* not an object, or a field missing or of the wrong type
MisshapedChallenges ==
    {Undefined, Null, Num(0), Num(5), String(<<"0", "x", "1">>), Function,
     Object(<<>>),
     Object([c |-> Num(123), d |-> Num(123), m |-> Num(123)]),
     Object([c |-> Hex(BigInt(1)), d |-> String(<<"f", "o", "o">>), m |-> Num(7)]),
     Object([c |-> Hex(BigInt(1)), d |-> Num(1), m |-> String(<<"7">>)]),
     Object([c |-> Hex(BigInt(1)), d |-> Num(1)]),
     Object([c |-> Hex(BigInt(1)), m |-> Num(7)]),
     Object([d |-> Num(1), m |-> Num(7)]),
     Object([c |-> BigIntValue(1), d |-> Num(1), m |-> Num(7)]),
     Object([c |-> Hex(BigInt(1)), d |-> BigIntValue(1), m |-> Num(7)]),
     Object([c |-> Hex(BigInt(1)), d |-> Num(1), m |-> BigIntValue(7)]),
     Object([c |-> Null, d |-> Num(1), m |-> Num(7)])}

ChallengeInputs == ShapedChallenges \cup MisshapedChallenges

\* solutions: s a 0x numeral around the range of the exponent, or malformed
SolutionInputs(challenge) ==
    (IF solveMalformed(challenge) \/ initMathsFunctionsThrows(Get(challenge, "m"))
     THEN {Object([s |-> Hex(BigInt(1))])}
     ELSE {Object([s |-> Hex(v)]) :
              v \in {x \in CallValues(initMathsFunctions(Get(challenge, "m"))) :
                        ~x.neg}})
    \cup {Undefined, Null, Object(<<>>), Object([s |-> Num(1)]),
          Object([s |-> String(<<"1", "2">>)]),
          Object([s |-> String(<<"0", "X", "1", "F">>)]),
          Object([s |-> String(<<"0", "x", "1", "F">>)]),
          Object([s |-> String(<<"0", "x", "0", "0", "5">>)]),
          Object([s |-> String(<<"0", "x">>)]),
          Object([s |-> String(<<"-", "0", "x", "1">>)]),
          Object([s |-> String(<<"0", "x", "1", "g">>)])}

(***************************************************************************)
(* The protocol: generate a challenge, solve it, verify the solution.      *)
(***************************************************************************)
Generate ==
    \E e \in GenerateExponentInputs, d \in GenerateDifficultyInputs :
        GenerateCall(e, d)

RandomBytes ==
    /\ gen.pc = "randomBytes"
    /\ \E bytes \in randomBytesOutputs(gen.challengeByteLength) :
           GenerateReturn(bytes)

SolveGenerated ==
    /\ gen.pc = "returned"
    /\ SolveWork(gen.result) <= MaxSolveWork
    /\ \E cb \in ProgressCallbackInputs : SolveCall(gen.result, cb)

VerifySolved ==
    /\ sol.pc = "returned"
    /\ VerifyCall(sol.challenge, sol.result)

Next ==
    \/ Generate
    \/ GenerateImportUtil
    \/ GenerateImportCrypto
    \/ RandomBytes
    \/ SolveGenerated
    \/ SolveLoop
    \/ SolvePowLoop
    \/ SolvePowReturn
    \/ SolveReturn
    \/ VerifySolved
    \/ VerifyLoop
    \/ VerifyReturn

(***************************************************************************)
(* solve and verify called with arguments of the caller's making.          *)
(***************************************************************************)
SolveInput ==
    /\ sol.pc = "idle"
    /\ ver.pc = "idle"
    /\ \E challenge \in ChallengeInputs,
          cb \in ProgressCallbackInputs \cup {Null, String(<<"c", "b">>)} :
           SolveCall(challenge, cb)

VerifyInput ==
    /\ ver.pc = "idle"
    /\ sol.pc = "idle"
    /\ \E challenge \in ChallengeInputs :
          \E solution \in SolutionInputs(challenge) : VerifyCall(challenge, solution)

\* verify of the challenge solve has thrown on
VerifyRejected ==
    /\ ver.pc = "idle"
    /\ sol.pc = "thrown"
    /\ \E solution \in {Object([s |-> Hex(BigInt(1))]), Undefined} :
           VerifyCall(sol.challenge, solution)

NextCalls ==
    \/ SolveInput
    \/ SolveLoop
    \/ SolvePowLoop
    \/ SolvePowReturn
    \/ SolveReturn
    \/ VerifyInput
    \/ VerifyRejected
    \/ VerifySolved
    \/ VerifyLoop
    \/ VerifyReturn

(***************************************************************************)
(* Calls of generate in flight together: two accepted calls, of different  *)
(* byte lengths and difficulties, and three rejected ones.                 *)
(***************************************************************************)
\* forMersenneExponent and withDifficulty
InFlightArguments ==
    {<<Num(61), Num(1)>>, <<Num(1279), Num(2)>>,
     <<Num(67), Num(1)>>, <<Num(7), Num(2)>>, <<Num(61), Num(-1)>>}

\* the source fills a request with one byte repeated
InFlightBytes(len) == {[i \in 1..len |-> b] : b \in ByteSamples}

GenerateInFlight ==
    \E j \in 1..MaxInFlight :
        \E a \in InFlightArguments : GenerateCallAt(j, a[1], a[2])

ImportUtilInFlight == \E j \in 1..MaxInFlight : GenerateImportUtilAt(j)

ImportCryptoInFlight == \E j \in 1..MaxInFlight : GenerateImportCryptoAt(j)

RandomBytesInFlight ==
    \E j \in 1..MaxInFlight :
        /\ gens[j].pc = "randomBytes"
        /\ \E bytes \in InFlightBytes(gens[j].challengeByteLength) :
               GenerateReturnAt(j, bytes)

NextInFlight ==
    \/ GenerateInFlight
    \/ ImportUtilInFlight
    \/ ImportCryptoInFlight
    \/ RandomBytesInFlight

NextMaths ==
    \/ CallInitMathsFunctions
    \/ CallBarrettMul
    \/ CallBarrettFastSquare
    \/ CallFastModPow
    \/ FastModPowLoop
    \/ FastModPowReturn
    \/ CallFastFixedExpPow
    \/ FastFixedExpPowLoop
    \/ FastFixedExpPowReturn

Init == InitIdle

Spec == Init /\ [][Next]_vars

SpecCalls == Init /\ [][NextCalls]_vars

SpecMaths == Init /\ [][NextMaths]_vars

SpecInFlight == Init /\ [][NextInFlight]_vars

(***************************************************************************)
(* What the operations are checked against: arithmetic by long division    *)
(* and by square-and-multiply, with no Barrett reduction in it.            *)
(***************************************************************************)
Whitelisted(v) ==
    /\ v.t = "number"
    /\ \E i \in 1..Len(Known_Mersenne_Exponents) : v = Num(Known_Mersenne_Exponents[i])

\* d is one of 0, 1, 2, ...
IsNatural(d) == d.t = "number" /\ d.k = "fin" /\ d.m >= 0 /\ (d.e >= 0 \/ d.m = 0)

Mersenne(n) == BigSub(BigShl(BigInt(1), n), BigInt(1))

RefMulMod(a, b, M) == BigRem(BigMul(a, b), M)

\* a^e mod M for an integer e >= 0
RECURSIVE RefPowMod(_, _, _)
RefPowMod(a, e, M) ==
    IF e = 0 THEN BigRem(BigInt(1), M)
    ELSE LET h == RefPowMod(a, e \div 2, M)
         IN  IF e % 2 = 0 THEN RefMulMod(h, h, M)
             ELSE RefMulMod(RefMulMod(h, h, M), BigRem(a, M), M)

\* F(x) = (x^(2^(n-2)) mod M) XOR 1, and F^d
RefF(x, n) == BigXor(RefPowMod(x, 2 ^ (n - 2), Mersenne(n)), BigInt(1))

RECURSIVE RefFd(_, _, _)
RefFd(x, n, d) == IF d = 0 THEN x ELSE RefFd(RefF(x, n), n, d - 1)

\* G(x) = (x XOR 1)^2 mod M, and G^d
RefG(x, n) == RefMulMod(BigXor(x, BigInt(1)), BigXor(x, BigInt(1)), Mersenne(n))

RECURSIVE RefGd(_, _, _)
RefGd(x, n, d) == IF d = 0 THEN x ELSE RefGd(RefG(x, n), n, d - 1)

\* the number of i = 0, 1, ... with i < d
Iterations(d) == Cardinality({i \in 0..(MaxDifficulty + 2) : IntLtNum(i, d)})

\* the integer a string of c or s is decoded to
Value(str) == StringToBigInt(str.s).v

\* the bytes as one unsigned integer, the first byte the most significant
RECURSIVE BigEndian(_, _)
BigEndian(bytes, i) ==
    IF i = 0 THEN BigInt(0)
    ELSE BigAdd(BigMul(BigEndian(bytes, i - 1), BigInt(256)), BigInt(bytes[i]))

\* fastFixedExpPow run to its return
RECURSIVE RunFixedExpPow(_, _)
RunFixedExpPow(k, f) ==
    IF f.n > 0 THEN RunFixedExpPow(k, fastFixedExpPowLoop(k, f)) ELSE f.base

\* undefined, null, not an object, or a field of the wrong type
ShapeMalformed(challenge) ==
    \/ challenge.t # "object"
    \/ Get(challenge, "c").t # "string"
    \/ Get(challenge, "d").t # "number"
    \/ Get(challenge, "m").t # "number"

\* the operation threw MalformedChallenge
Malformed(frame) == frame.pc = "thrown" /\ frame.error = "MalformedChallenge"

(***************************************************************************)
(* C1..C10                                                                 *)
(***************************************************************************)
\* C1: every challenge generate returned is solved without an error, verify
\* of it and of solve's solution returns true without an error, and with
\* d = 0 the value of s is the value of c.
RoundTrip ==
    /\ sol.pc # "thrown"
    /\ ver.pc # "thrown"
    /\ sol.pc # "idle" => sol.challenge = gen.result
    /\ ver.pc # "idle" => /\ ver.challenge = gen.result
                          /\ ver.solution = sol.result
    /\ ver.pc = "returned" => ver.result = TRUE
    /\ (sol.pc = "returned" /\ Get(sol.challenge, "d") = Num(0)) =>
           Value(Get(sol.result, "s")) = Value(Get(sol.challenge, "c"))

RoundTripWitness ==
    /\ ver.pc = "returned"
    /\ ver.result = TRUE
    /\ gen.pc = "returned"
    /\ ver.challenge = gen.result
    /\ Get(ver.challenge, "m") = Num(127)
    /\ Get(ver.challenge, "d") = Num(1)
    /\ gen.bytes[1] = 255
    /\ ver.solution = sol.result
    /\ Value(Get(ver.solution, "s")) # Value(Get(ver.challenge, "c"))

\* C2: for a whitelisted m, a c in [0, M) and d = 0, 1, 2, ... solve returns
\* s = F^d(c), whatever the progress callback.
SolveIsFd ==
    (/\ sol.pc = "returned"
     /\ Whitelisted(Get(sol.challenge, "m"))
     /\ IsNatural(Get(sol.challenge, "d"))
     /\ ~Value(Get(sol.challenge, "c")).neg
     /\ BigLt(Value(Get(sol.challenge, "c")), sol.k.modulus))
    => Value(Get(sol.result, "s"))
           = RefFd(Value(Get(sol.challenge, "c")), IntOf(Get(sol.challenge, "m")),
                   IntOf(Get(sol.challenge, "d")))

\* C3: verify of a challenge with a whitelisted m, a number d and a c that
\* encodes an unsigned integer, and of a solution with a 0x hexadecimal s,
\* raises nothing; it returns false for s >= M and otherwise whether G^d(s)
\* is c or M - c, d counting the iterations i = 0, 1, ... below d.
VerifyInputs ==
    /\ ver.pc # "idle"
    /\ ~ShapeMalformed(ver.challenge)
    /\ Whitelisted(Get(ver.challenge, "m"))
    /\ StringToBigInt(Get(ver.challenge, "c").s).ok
    /\ ~Value(Get(ver.challenge, "c")).neg
    /\ ver.solution.t = "object"
    /\ Get(ver.solution, "s").t = "string"
    /\ Len(Get(ver.solution, "s").s) >= 3
    /\ SubSeq(Get(ver.solution, "s").s, 1, 2) = <<"0", "x">>
    /\ \A i \in 3..Len(Get(ver.solution, "s").s) : IsHexDigit(Get(ver.solution, "s").s[i])

VerifyIsGd ==
    VerifyInputs =>
        /\ ver.pc # "thrown"
        /\ ver.pc = "returned" =>
             LET n == IntOf(Get(ver.challenge, "m"))
                 s == Value(Get(ver.solution, "s"))
                 c == Value(Get(ver.challenge, "c"))
                 g == RefGd(s, n, Iterations(Get(ver.challenge, "d")))
             IN  ver.result = IF BigGe(s, Mersenne(n)) THEN FALSE
                              ELSE (g = c \/ g = BigSub(Mersenne(n), c))

\* accepted through the M - c branch after two iterations
VerifyIsGdWitness ==
    /\ VerifyInputs
    /\ ver.pc = "returned"
    /\ ver.result = TRUE
    /\ ver.i = 2
    /\ Get(ver.challenge, "m") = Num(7)
    /\ RefGd(Value(Get(ver.solution, "s")), 7, 2) # Value(Get(ver.challenge, "c"))

\* C4: barrettFastSquare(a) is a * a mod M, and is barrettMul(a, a).
FastSquareIsSquare ==
    (mth.pc = "returned" /\ mth.fn = "barrettFastSquare") =>
        /\ mth.result = RefMulMod(mth.a, mth.a, Mersenne(mth.k.modulusLog2))
        /\ mth.result = barrettMul(mth.k, mth.a, mth.a)

FastSquareWitness ==
    /\ mth.pc = "returned"
    /\ mth.fn = "barrettFastSquare"
    /\ mth.k.modulusLog2 = 13
    /\ mth.a = BigInt(4097)
    /\ mth.result = BigInt(2050)

\* C5: barrettMul(a, b) is a * b mod M for every a and b in [0, M).
MulIsProduct ==
    (mth.pc = "returned" /\ mth.fn = "barrettMul") =>
        mth.result = RefMulMod(mth.a, mth.b, Mersenne(mth.k.modulusLog2))

MulWitness ==
    /\ mth.pc = "returned"
    /\ mth.fn = "barrettMul"
    /\ mth.k.modulusLog2 = 13
    /\ mth.a = BigInt(8190)
    /\ mth.b = BigInt(30)
    /\ mth.result = BigInt(8161)

\* C6: fastModPow(a) and fastFixedExpPow(a) are both a^((M + 1)/4) mod M,
\* and fastModPow(a) is what the ladder of n - 2 squarings gives.
PowsAgree ==
    (mth.pc = "returned" /\ mth.fn \in {"fastModPow", "fastFixedExpPow"}) =>
        /\ mth.result = RefPowMod(mth.a, (2 ^ mth.k.modulusLog2) \div 4,
                                  Mersenne(mth.k.modulusLog2))
        /\ mth.fn = "fastModPow" =>
               mth.result = RunFixedExpPow(mth.k, fastFixedExpPowEnter(mth.k, mth.a))

PowsAgreeWitness ==
    /\ mth.pc = "returned"
    /\ mth.fn = "fastModPow"
    /\ mth.k.modulusLog2 = 13
    /\ mth.a = BigInt(3)
    /\ mth.result = BigInt(181)

\* C7: solve of a well-shaped challenge with a whitelisted m and a c below 0
\* or at least M (M included) throws OutOfRange at the call.
SolveOutOfRange ==
    (/\ sol.pc # "idle"
     /\ ~ShapeMalformed(sol.challenge)
     /\ sol.progressCallback \in {Undefined, Function}
     /\ Whitelisted(Get(sol.challenge, "m"))
     /\ StringToBigInt(Get(sol.challenge, "c").s).ok
     /\ \/ Value(Get(sol.challenge, "c")).neg
        \/ BigGe(Value(Get(sol.challenge, "c")),
                 Mersenne(IntOf(Get(sol.challenge, "m")))))
    => (sol.pc = "thrown" /\ sol.error = "OutOfRange")

\* C8: solve and verify throw MalformedChallenge, with nothing computed or
\* returned, exactly for the challenges that are no object or have a c that
\* is no string, a d that is no number or an m that is no number.
MalformedChallengeBoth ==
    /\ sol.pc # "idle" =>
         /\ Malformed(sol) <=> ShapeMalformed(sol.challenge)
         /\ Malformed(sol) =>
                DOMAIN sol \cap {"result", "solution", "k", "f", "progress"} = {}
    /\ ver.pc # "idle" =>
         /\ Malformed(ver) <=> ShapeMalformed(ver.challenge)
         /\ Malformed(ver) => /\ DOMAIN ver \cap {"result", "check", "k"} = {}
                              /\ ver.i = 0

MalformedChallengeWitness ==
    /\ Malformed(sol)
    /\ Malformed(ver)
    /\ ver.challenge = sol.challenge
    /\ sol.challenge.t = "object"
    /\ Get(sol.challenge, "c").t = "string"
    /\ Get(sol.challenge, "d").t = "number"
    /\ Get(sol.challenge, "m").t = "string"

\* C9: generate goes on to a challenge exactly for a whitelisted exponent of
\* at least 61 and a difficulty that is a non-negative safe integer, one of
\* 0 .. 2^53 - 1; else it throws UnknownExponent for an exponent not
\* whitelisted, then ExponentTooSmall for one below 61, then InvalidDifficulty.
GenerateChecked(difficultyOk(_)) ==
    gen.pc \in {"thrown", "randomBytes", "returned"} =>
        LET e == gen.forMersenneExponent
            d == gen.withDifficulty
        IN  /\ gen.pc # "thrown" <=>
                 (Whitelisted(e) /\ e.m >= 61 /\ difficultyOk(d))
            /\ gen.pc = "thrown" =>
                 gen.error = IF ~Whitelisted(e) THEN "UnknownExponent"
                             ELSE IF e.m < 61 THEN "ExponentTooSmall"
                             ELSE "InvalidDifficulty"

SafeNatural(d) == IsNatural(d) /\ BitLen(d.m) + d.e <= 53

GeneratedChallenge ==
    gen.pc = "returned" =>
        LET m == gen.forMersenneExponent.m
            c == Get(gen.result, "c")
        IN  /\ Get(gen.result, "d") = gen.withDifficulty
            /\ Get(gen.result, "m") = gen.forMersenneExponent
            /\ Len(gen.bytes) = IF m < 128 THEN m \div 8 ELSE 16
            /\ c.t = "string"
            /\ Len(c.s) = 2 + 2 * Len(gen.bytes)
            /\ SubSeq(c.s, 1, 2) = <<"0", "x">>
            /\ StringToBigInt(c.s).ok
            /\ Value(c) = BigEndian(gen.bytes, Len(gen.bytes))
            /\ ~Value(c).neg
            /\ BigLt(Value(c), BigShl(BigInt(1), 8 * Len(gen.bytes)))
            /\ BigLt(Value(c), BigShl(BigInt(1), m))

GeneratedChallengeWitness ==
    /\ gen.pc = "returned"
    /\ gen.forMersenneExponent = Num(89)
    /\ gen.withDifficulty = Num(2)
    /\ Len(gen.bytes) = 11
    /\ gen.bytes[1] = 78
    /\ gen.bytes[2] = 255
    /\ Value(Get(gen.result, "c")) = BigEndian(gen.bytes, 11)

(***************************************************************************)
(* C11..C20                                                                *)
(***************************************************************************)
\* C11: solve given a progress callback and an integer d >= 1 has invoked it
\* i times when i iterations are done, never during an iteration and never
\* after the return; the k-th value is k / d, so the values increase
\* strictly from 1/d to 1, and d of them are given when solve returns.
\* With d = 0, or without a callback, nothing is invoked.
ProgressReported ==
    sol.pc \in {"loop", "fastFixedExpPow", "returned"} =>
        LET d == Get(sol.challenge, "d")
            p == sol.progress
        IN  IF sol.progressCallback = Function /\ IsNatural(d) /\ d.m >= 1
            THEN /\ Len(p) = sol.i
                 /\ \A j \in 1..Len(p) : p[j].num = j /\ p[j].den = d
                 /\ \A j \in 1..(Len(p) - 1) :
                        p[j].num * IntOf(p[j + 1].den) < p[j + 1].num * IntOf(p[j].den)
                 /\ sol.pc = "returned" =>
                        /\ Len(p) = IntOf(d)
                        /\ p[Len(p)].num = IntOf(p[Len(p)].den)
            ELSE (d = Num(0) \/ ~Truthy(sol.progressCallback)) => p = <<>>

ProgressReportedWitness ==
    /\ sol.pc = "returned"
    /\ sol.progressCallback = Function
    /\ Get(sol.challenge, "m") = Num(7)
    /\ sol.progress = <<[num |-> 1, den |-> Num(2)], [num |-> 2, den |-> Num(2)]>>
    /\ sol.calls.barrettFastSquare = 10

\* the integer a small non-negative BigInt is
RECURSIVE NatOfLimbs(_, _)
NatOfLimbs(mag, i) ==
    IF i > Len(mag) THEN 0 ELSE mag[i] + Radix * NatOfLimbs(mag, i + 1)

NatOf(a) == NatOfLimbs(a.mag, 1)

\* c is a square of some y in [1, M)
IsResidue(c, M) == \E y \in 1..(M - 1) : (y * y) % M = c

\* verify is at, or past, the end of its ladder on solve's output for a
\* whitelisted m, a c in [0, M) and d = 1, 2, ...
NegationInputs ==
    /\ sol.pc = "returned"
    /\ ver.pc # "idle"
    /\ ver.challenge = sol.challenge
    /\ ver.solution = sol.result
    /\ Whitelisted(Get(sol.challenge, "m"))
    /\ IsNatural(Get(sol.challenge, "d"))
    /\ Get(sol.challenge, "d").m >= 1
    /\ StringToBigInt(Get(sol.challenge, "c").s).ok
    /\ ~Value(Get(sol.challenge, "c")).neg
    /\ BigLt(Value(Get(sol.challenge, "c")), sol.k.modulus)

NegationOutcome ==
    LET c == Value(Get(ver.challenge, "c"))
        M == NatOf(sol.k.modulus)
    IN  /\ ver.pc # "thrown"
        /\ (ver.pc = "loop" /\ ~IntLtNum(ver.i, ver.difficulty)) =>
               ver.check = IF NatOf(c) = 0 \/ IsResidue(NatOf(c), M) THEN c
                           ELSE BigSub(sol.k.modulus, c)
        /\ ver.pc = "returned" => ver.result = TRUE

\* C12: for every whitelisted m, every c in [0, M) and every d >= 1,
\* verify's ladder on solve's output ends with check = c when c is 0 or a
\* quadratic residue and with check = M - c otherwise, and verify returns
\* true.
NegationProperty == NegationInputs => NegationOutcome

\* the same for the exponents from 3 on
NegationPropertyFrom3 ==
    (NegationInputs /\ sol.k.modulusLog2 >= 3) => NegationOutcome

NegationPropertyFrom3Witness ==
    /\ NegationInputs
    /\ ver.pc = "loop"
    /\ ver.i = 2
    /\ ver.difficulty = Num(2)
    /\ sol.k.modulusLog2 = 7
    /\ Get(ver.challenge, "c") = Hex(BigInt(3))
    /\ ver.check = BigInt(124)

\* m = 2: solve of c = 2 with d = 1 returns 0x3, the modulus, and verify
\* returns false for it
NegationRefuted ==
    /\ NegationInputs
    /\ sol.k.modulusLog2 = 2
    /\ Get(sol.challenge, "c") = Hex(BigInt(2))
    /\ Get(sol.challenge, "d") = Num(1)
    /\ Get(sol.result, "s") = Hex(BigInt(3))
    /\ ver.pc = "returned"
    /\ ver.result = FALSE
    /\ ver.i = 0

\* C13: initMathsFunctions throws UnknownExponent exactly when Number(n) is
\* not in the whitelist; for a whitelisted n it returns modulus = 2^n - 1
\* and exponent = (modulus + 1) / 4 = 2^(n - 2) exactly, the modulus is 3
\* mod 4, and the Barrett constant floor(4^n / modulus) is 2^n + 1.
InitMathsFunctionsConstants ==
    (mth.pc # "idle" /\ mth.fn = "initMathsFunctions") =>
        /\ mth.pc = "thrown" <=> ~Whitelisted(Number(mth.a))
        /\ mth.pc = "thrown" => mth.error = "UnknownExponent"
        /\ mth.pc = "returned" =>
             LET n == Number(mth.a).m
                 M == mth.k.modulus
                 R == mth.k.barrett_R
                 P(j) == BigShl(BigInt(1), j)
             IN  /\ BigAdd(M, BigInt(1)) = P(n)
                 /\ mth.k.exponent = P(n - 2)
                 /\ BigMul(mth.k.exponent, BigInt(4)) = BigAdd(M, BigInt(1))
                 /\ BigRem(M, BigInt(4)) = BigInt(3)
                 /\ R = BigAdd(P(n), BigInt(1))
                 /\ ~BigGt(BigMul(R, M), P(2 * n))
                 /\ BigGt(BigMul(BigAdd(R, BigInt(1)), M), P(2 * n))

InitMathsFunctionsWitness ==
    /\ mth.pc = "returned"
    /\ mth.fn = "initMathsFunctions"
    /\ mth.a = String(<<"1", "2", "7">>)
    /\ mth.k.modulusLog2 = 127
    /\ Len(mth.k.modulus.mag) = 11
    /\ mth.k.exponent = BigShl(BigInt(1), 125)

\* C14: a call of solve, verify or generate that ends by raising an error
\* has called neither barrettFastSquare nor barrettMul and has asked for no
\* random bytes.
RaisedBeforeWork ==
    /\ sol.pc = "thrown" => sol.calls = NoCalls
    /\ ver.pc = "thrown" => ver.calls = NoCalls
    /\ gen.pc = "thrown" => DOMAIN gen \cap {"challengeByteLength", "bytes"} = {}

\* verify raises the SyntaxError of an undecodable c after its d squarings
RaisedAfterWork ==
    /\ ver.pc = "thrown"
    /\ ver.error = "SyntaxError"
    /\ Get(ver.challenge, "c") = String(<<"f", "o", "o">>)
    /\ Get(ver.challenge, "d") = Num(2)
    /\ Get(ver.challenge, "m") = Num(7)
    /\ ver.calls.barrettFastSquare = 2

GeneratedInRange ==
    /\ gen.pc = "returned" =>
          LET c == Value(Get(gen.result, "c"))
              m == gen.forMersenneExponent.m
          IN  /\ ~c.neg
              /\ 8 * Len(gen.bytes) < m
              /\ BigLt(c, Mersenne(m))
    /\ sol.pc = "thrown" => sol.error # "OutOfRange"

\* the largest output of the source for m = 61, solved
GeneratedInRangeWitness ==
    /\ gen.pc = "returned"
    /\ gen.forMersenneExponent = Num(61)
    /\ \A i \in 1..Len(gen.bytes) : gen.bytes[i] = 255
    /\ Get(gen.result, "c") = Hex(BigSub(BigShl(BigInt(1), 56), BigInt(1)))
    /\ sol.pc = "returned"
    /\ sol.challenge = gen.result
    /\ sol.i = 2

\* C16 as stated: for m in {61, 89, 107, 127} some output of the byte
\* source gives a c outside [0, M), on which solve raises OutOfRange; the
\* largest output, every byte 255, is then such an output.
GeneratedOutOfRange ==
    (/\ gen.pc = "returned"
     /\ gen.forMersenneExponent.m \in {61, 89, 107, 127}
     /\ \A i \in 1..Len(gen.bytes) : gen.bytes[i] = 255)
    => /\ BigGe(Value(Get(gen.result, "c")), Mersenne(gen.forMersenneExponent.m))
       /\ sol.pc # "idle" => (sol.pc = "thrown" /\ sol.error = "OutOfRange")

\* C17: for operands in [0, M) the x that barrettMul and barrettFastSquare
\* compute before the conditional subtraction is in [0, 2M): it is never
\* negative, and the one subtraction of M leaves the result in [0, M).
BarrettCandidateBound ==
    (mth.pc = "returned" /\ mth.fn \in {"barrettMul", "barrettFastSquare"}) =>
        LET M == mth.k.modulus
        IN  /\ ~mth.x.neg
            /\ BigLt(mth.x, BigAdd(M, M))
            /\ mth.result = IF BigGe(mth.x, M) THEN BigSub(mth.x, M) ELSE mth.x
            /\ ~mth.result.neg
            /\ BigLt(mth.result, M)

\* a square whose x needs the subtraction
BarrettCandidateWitness ==
    /\ mth.pc = "returned"
    /\ mth.fn = "barrettFastSquare"
    /\ mth.k.modulusLog2 = 13
    /\ BigGe(mth.x, mth.k.modulus)
    /\ mth.result # mth.x
    /\ mth.a = BigInt(8190)

\* a whitelisted m, an integer d >= 0 and a c that decodes into [0, M)
ValidChallenge(challenge) ==
    /\ ~ShapeMalformed(challenge)
    /\ Whitelisted(Get(challenge, "m"))
    /\ IsNatural(Get(challenge, "d"))
    /\ StringToBigInt(Get(challenge, "c").s).ok
    /\ ~Value(Get(challenge, "c")).neg
    /\ BigLt(Value(Get(challenge, "c")), Mersenne(Get(challenge, "m").m))

\* a 0x hexadecimal s in [0, M) for the challenge's m
ValidSolution(challenge, solution) ==
    /\ solution.t = "object"
    /\ Get(solution, "s").t = "string"
    /\ matchesHex(Get(solution, "s").s)
    /\ BigLt(Value(Get(solution, "s")), Mersenne(Get(challenge, "m").m))

\* x squared j times by barrettFastSquare
RECURSIVE Squarings(_, _, _)
Squarings(k, x, j) == IF j = 0 THEN x ELSE barrettFastSquare(k, Squarings(k, x, j - 1))

\* C18: solve of a valid challenge raises nothing, calls barrettMul never
\* and barrettFastSquare n - 2 times in each of its d iterations, each
\* ladder starting from the value the iteration before left, d * (n - 2)
\* calls at its return after d iterations; verify of a valid challenge and
\* a solution in [0, M) calls barrettMul never and barrettFastSquare once
\* in each iteration, d calls at its return.
OperationCounts ==
    /\ (/\ sol.pc # "idle"
        /\ ValidChallenge(sol.challenge)
        /\ sol.progressCallback \in {Undefined, Null, Function}) =>
          LET d == IntOf(Get(sol.challenge, "d"))
              n == Get(sol.challenge, "m").m
          IN  /\ sol.pc \in {"loop", "fastFixedExpPow", "returned"}
              /\ sol.calls.barrettMul = 0
              /\ sol.pc = "loop" =>
                     sol.i <= d /\ sol.calls.barrettFastSquare = sol.i * (n - 2)
              /\ sol.pc = "fastFixedExpPow" =>
                     /\ sol.i < d
                     /\ sol.f.n \in 0..(n - 2)
                     /\ sol.calls.barrettFastSquare = sol.i * (n - 2) + (n - 2 - sol.f.n)
                     /\ sol.f.base = Squarings(sol.k, sol.solution, n - 2 - sol.f.n)
              /\ sol.pc = "returned" =>
                     sol.i = d /\ sol.calls.barrettFastSquare = d * (n - 2)
    /\ (/\ ver.pc # "idle"
        /\ ValidChallenge(ver.challenge)
        /\ ValidSolution(ver.challenge, ver.solution)) =>
          LET d == IntOf(Get(ver.challenge, "d"))
          IN  /\ ver.pc \in {"loop", "returned"}
              /\ ver.calls.barrettMul = 0
              /\ ver.i <= d
              /\ ver.calls.barrettFastSquare = ver.i
              /\ ver.pc = "returned" => ver.calls.barrettFastSquare = d

\* m = 7 and d = 2: ten squarings to solve, two to verify
OperationCountsWitness ==
    /\ sol.pc = "returned"
    /\ ValidChallenge(sol.challenge)
    /\ Get(sol.challenge, "m") = Num(7)
    /\ Get(sol.challenge, "d") = Num(2)
    /\ sol.calls = [barrettFastSquare |-> 10, barrettMul |-> 0]
    /\ ver.pc = "returned"
    /\ ver.challenge = sol.challenge
    /\ ver.solution = sol.result
    /\ ver.calls = [barrettFastSquare |-> 2, barrettMul |-> 0]

\* C19: whatever challenge solve accepts, the s it returns is in [0, M).
SolutionInRange ==
    sol.pc = "returned" =>
        /\ ~Value(Get(sol.result, "s")).neg
        /\ BigLt(Value(Get(sol.result, "s")), sol.k.modulus)

\* solve accepts c = M and with d = 0 returns it
SolutionIsModulus ==
    /\ sol.pc = "returned"
    /\ Get(sol.challenge, "m") = Num(7)
    /\ Get(sol.challenge, "d") = Num(0)
    /\ Get(sol.challenge, "c") = Hex(BigInt(127))
    /\ Get(sol.result, "s") = Hex(BigInt(127))
    /\ sol.calls = NoCalls

\* the same for the challenges with c in [0, M) and the exponents from 3 on
SolutionInRangeFrom3 ==
    (/\ sol.pc = "returned"
     /\ BigLt(Value(Get(sol.challenge, "c")), sol.k.modulus)
     /\ sol.k.modulusLog2 >= 3)
    => /\ ~Value(Get(sol.result, "s")).neg
       /\ BigLt(Value(Get(sol.result, "s")), sol.k.modulus)

\* C20: in verify's loop check is in [0, M) before and after every
\* iteration.  The operand check XOR 1 of the next squaring is at most M,
\* and is M exactly when check = M - 1; for every such operand, M included,
\* barrettFastSquare's x is in [0, 2M), and for the operand M it returns 0.
VerifyCheckInRange ==
    ver.pc = "loop" =>
        LET M == ver.k.modulus
            operand == BigXor(ver.check, Flip_Bits)
            x == barrettFastSquareCandidate(ver.k, operand)
        IN  /\ ~ver.check.neg
            /\ BigLt(ver.check, M)
            /\ IntLtNum(ver.i, ver.difficulty) =>
                   /\ ~operand.neg
                   /\ ~BigGt(operand, M)
                   /\ operand = M <=> ver.check = BigSub(M, BigInt(1))
                   /\ ~x.neg
                   /\ BigLt(x, BigAdd(M, M))
                   /\ operand = M => barrettFastSquare(ver.k, operand) = BigInt(0)

\* s = M - 1: the first iteration has squared M and left 0
VerifyCheckInRangeWitness ==
    /\ ver.pc = "loop"
    /\ ver.i = 1
    /\ ver.difficulty = Num(2)
    /\ ver.k.modulusLog2 = 7
    /\ Get(ver.solution, "s") = Hex(BigInt(126))
    /\ ver.check = BigInt(0)
    /\ ver.calls.barrettFastSquare = 1

(***************************************************************************)
(* C21..C22                                                                *)
(***************************************************************************)
\* verify run from a frame to its return or its error
RECURSIVE RunVerify(_)
RunVerify(f) ==
    IF f.pc # "loop" THEN f
    ELSE IF IntLtNum(f.i, f.difficulty) THEN RunVerify(verifyLoop(f))
    ELSE verifyReturn(f)

\* what a call of verify ends with: the value returned, or the error raised
Outcome(f) == IF f.pc = "returned" THEN <<"returned", f.result>>
              ELSE <<"thrown", f.error>>

\* verify has ended for a challenge with a whitelisted m and a d >= 1 and
\* a solution with 0 < s < M
ComplementInputs ==
    /\ ver.pc \in {"returned", "thrown"}
    /\ ~ShapeMalformed(ver.challenge)
    /\ Whitelisted(Get(ver.challenge, "m"))
    /\ IntLtNum(0, Get(ver.challenge, "d"))
    /\ ver.solution.t = "object"
    /\ Get(ver.solution, "s").t = "string"
    /\ matchesHex(Get(ver.solution, "s").s)
    /\ BigGt(Value(Get(ver.solution, "s")), BigInt(0))
    /\ BigLt(Value(Get(ver.solution, "s")), Mersenne(Get(ver.challenge, "m").m))

\* the solution with M - s for s
Complement(challenge, solution) ==
    Object([s |-> Hex(BigSub(Mersenne(Get(challenge, "m").m),
                             Value(Get(solution, "s"))))])

\* C21: for a challenge with d >= 1 and an s with 0 < s < M, verify of s
\* and verify of M - s end the same way: both return true, both return
\* false, or both raise the same error.
ComplementAccepted ==
    ComplementInputs =>
        Outcome(ver) = Outcome(RunVerify(verifyEnter(ver.challenge,
                                   Complement(ver.challenge, ver.solution))))

\* m = 7: 124 = M - 3 is accepted for c = 4 and d = 1, as 3 is
ComplementAcceptedWitness ==
    /\ ComplementInputs
    /\ ver.pc = "returned"
    /\ ver.result = TRUE
    /\ Get(ver.challenge, "m") = Num(7)
    /\ Get(ver.challenge, "d") = Num(1)
    /\ Get(ver.challenge, "c") = Hex(BigInt(4))
    /\ Get(ver.solution, "s") = Hex(BigInt(124))
    /\ RunVerify(verifyEnter(ver.challenge, Object([s |-> Hex(BigInt(3))]))).result = TRUE

\* a call in flight: between its first step and its return or its error
InFlight(f) == f.pc \in {"import util", "import crypto", "randomBytes"}

\* C22: whatever the interleaving of the calls of generate in flight, no
\* step clears randomBytesP once it is set, and every call past its imports
\* finds it set, the calls that fail validation included; no step of one
\* call changes the arguments of a call in flight; and a call that returns
\* returns its own d and m and a c that is the bytes of its own request,
\* floor(m / 8) or 16 of them for its own m.
InFlightIndependent ==
    [][/\ randomBytesP => randomBytesP'
       /\ \A j \in 1..MaxInFlight :
             LET f == gens[j]
                 g == gens'[j]
             IN  /\ g.pc \in {"thrown", "randomBytes", "returned"} => randomBytesP'
                 /\ InFlight(f) =>
                        /\ g.pc # "idle"
                        /\ g.forMersenneExponent = f.forMersenneExponent
                        /\ g.withDifficulty = f.withDifficulty
                 /\ g.pc = "randomBytes" =>
                        g.challengeByteLength =
                            IF g.forMersenneExponent.m < 128
                            THEN g.forMersenneExponent.m \div 8 ELSE 16
                 /\ g.pc = "returned" =>
                        /\ Get(g.result, "d") = g.withDifficulty
                        /\ Get(g.result, "m") = g.forMersenneExponent
                        /\ Len(g.bytes) = IF g.forMersenneExponent.m < 128
                                          THEN g.forMersenneExponent.m \div 8 ELSE 16
                        /\ f.pc = "randomBytes" => Len(g.bytes) = f.challengeByteLength
                        /\ Value(Get(g.result, "c")) = BigEndian(g.bytes, Len(g.bytes))
                        /\ Len(Get(g.result, "c").s) = 2 + 2 * Len(g.bytes)]_vars

\* call 2 began after call 1, both before the handle was set; call 2 has
\* set it and returned while the imports of call 1 are pending, and call 1
\* will assign it again
InFlightWitness ==
    /\ gens[1].pc = "import crypto"
    /\ gens[1].forMersenneExponent = Num(61)
    /\ gens[1].withDifficulty = Num(1)
    /\ gens[2].pc = "returned"
    /\ gens[2].forMersenneExponent = Num(1279)
    /\ Get(gens[2].result, "d") = Num(2)
    /\ Len(gens[2].bytes) = 16
    /\ gens[2].bytes[1] = 78
    /\ randomBytesP

====
